---- MODULE Spec2Model ----
(***************************************************************************)
(* Model of config/.config/scripts/power.py: the PowerMenu window.          *)
(*                                                                          *)
(* One process, one GTK main loop.  The state is the PowerMenu object       *)
(* (is_hyprland, wal_colors, the style sheet it installs, the window and    *)
(* the confirmation dialog), the environment it reads (the colour cache     *)
(* file, the HYPRLAND_INSTANCE_SIGNATURE variable, what each external       *)
(* command does when run) and a log of every external command invoked.      *)
(* Every subprocess.run / os.system call is one step, so that the order of  *)
(* invocations and of the window close is observable.                       *)
(***************************************************************************)
EXTENDS Naturals, Integers, Sequences, FiniteSets, TLC

VARIABLES
    pc,           \* position of the process (constructor step, main loop, handler step)
    env_sig,      \* "HYPRLAND_INSTANCE_SIGNATURE" in os.environ
    colors_file,  \* ~/.cache/wal/colors.json: absent, unparsable or a JSON object
    is_hyprland,  \* self.is_hyprland
    wal_colors,   \* self.wal_colors
    css,          \* the style sheet handed to the CssProvider
    window,       \* the PowerMenu window: "created", "shown", "destroyed"
    dialog,       \* the Gtk.MessageDialog of confirm_action
    response,     \* the value dialog.run() returned in the current handler
    i,            \* position of the for loop of fallback_lock in lock_commands
    outcome,      \* what each lock command does if run during the current Lock activation
    log,          \* every external command invoked so far, in order
    nact,         \* number of button activations so far
    handler,      \* the signal handler running (or the last one run)
    buttons,      \* the (label, handler) pairs connected by setup_ui
    command,      \* the command argument of the running confirm_action
    status,       \* the value os.system returned (the code drops it)
    exc           \* the exception that left the last handler or the constructor

vars == <<pc, env_sig, colors_file, is_hyprland, wal_colors, css, window,
          dialog, response, i, outcome, log, nact, handler, buttons, command,
          status, exc>>

\* Bound of the model: button activations in one run of the program.
MaxActivations == 2

-----------------------------------------------------------------------------
(* Strings.  A Python string is a sequence of tokens; " " is the blank.     *)

RECURSIVE Split(_)
\* str.split(): the words of the string, blanks dropped.
Split(s) ==
    IF s = <<>> THEN <<>>
    ELSE IF Head(s) = " " THEN Split(Tail(s))
         ELSE <<Head(s)>> \o Split(Tail(s))

RECURSIVE LStrip(_, _)
\* str.lstrip(ch): the string without its leading ch characters.
LStrip(s, ch) ==
    IF s # <<>> /\ Head(s) = ch THEN LStrip(Tail(s), ch) ELSE s

\* s[a:b] of Python (0-based, end exclusive, clipped to the string).
Slice(s, a, b) ==
    LET hi == IF b < Len(s) THEN b ELSE Len(s)
    IN  IF a >= hi THEN <<>> ELSE SubSeq(s, a + 1, hi)

HexDigits == <<"0","1","2","3","4","5","6","7","8","9","a","b","c","d","e","f">>

IsHexDigit(ch) == \E k \in 1..Len(HexDigits) : HexDigits[k] = ch

DigitVal(ch) == (CHOOSE k \in 1..Len(HexDigits) : HexDigits[k] = ch) - 1

\* int(s, 16) raises ValueError on the empty string and on a non-digit.
IntRaises(s) == s = <<>> \/ \E k \in 1..Len(s) : ~IsHexDigit(s[k])

RECURSIVE Int16(_)
Int16(s) ==
    IF s = <<>> THEN 0
    ELSE Int16(SubSeq(s, 1, Len(s) - 1)) * Len(HexDigits) + DigitVal(s[Len(s)])

-----------------------------------------------------------------------------
(* Colours and the colour cache.                                            *)

Black   == <<"#","0","0","0","0","0","0">>
White   == <<"#","f","f","f","f","f","f">>
Magenta == <<"#","f","f","0","0","f","f">>
\* A colour a style sheet accepts that is not '#' and six hex digits.
Short   == <<"#","f","f","f">>

\* A dict of the cache is a function on the key paths; a path that is not
\* in the dict maps to Missing, an inner dict that is present maps to Obj.
Missing == <<>>
Obj     == <<"{", "}">>

ColorKeys == {"colors.color0", "colors.color1", "colors.color2", "colors.color3",
              "colors.color4", "colors.color5", "colors.color6", "colors.color7"}
Paths == {"special", "special.background", "special.foreground", "colors"}
             \cup ColorKeys

EmptyDict == [p \in Paths |-> Missing]

\* The dict literal load_wal_colors returns when the file does not exist.
DefaultPalette ==
    [p \in Paths |->
        CASE p = "special"            -> Obj
          [] p = "special.background" -> <<"#","2","8","2","a","3","6">>
          [] p = "special.foreground" -> <<"#","f","8","f","8","f","2">>
          [] p = "colors"             -> Obj
          [] p = "colors.color0"      -> <<"#","2","1","2","2","2","c">>
          [] p = "colors.color1"      -> <<"#","f","f","5","5","5","5">>
          [] p = "colors.color2"      -> <<"#","5","0","f","a","7","b">>
          [] p = "colors.color3"      -> <<"#","f","1","f","a","8","c">>
          [] p = "colors.color4"      -> <<"#","b","d","9","3","f","9">>
          [] p = "colors.color5"      -> <<"#","f","f","7","9","c","6">>
          [] p = "colors.color6"      -> <<"#","8","b","e","9","f","d">>
          [] p = "colors.color7"      -> <<"#","f","8","f","8","f","2">>]

\* A cache object holding the three entries the program reads.
Cache(bg, fg, c4) ==
    [p \in Paths |->
        CASE p = "special"            -> Obj
          [] p = "special.background" -> bg
          [] p = "special.foreground" -> fg
          [] p = "colors"             -> Obj
          [] p = "colors.color4"      -> c4
          [] OTHER                    -> Missing]

\* d without the entry at path p (and, for an inner dict, without its entries).
Without(d, p) ==
    [q \in Paths |->
        IF q = p \/ (p = "special" /\ q \in {"special.background", "special.foreground"})
                 \/ (p = "colors" /\ q \in ColorKeys)
        THEN Missing ELSE d[q]]

ValidColors == {Black, White, Magenta}

\* Caches with the three entries: every combination of the valid colours,
\* and two with a three-digit colour.
CompleteCaches ==
    {Cache(bg, fg, c4) : bg \in ValidColors, fg \in ValidColors, c4 \in ValidColors}
        \cup {Cache(Short, White, Magenta), Cache(Black, Short, Magenta)}

\* The complete caches the menu is run with: they differ in which of the
\* colours hex_to_rgba accepts, the one thing the handlers read of them.
RunCaches ==
    {Cache(Black, White, Magenta), Cache(Short, White, Magenta),
     Cache(Black, Short, Magenta)}

PartialCaches ==
    {Without(Cache(Black, White, Magenta), p) :
        p \in {"special", "colors", "special.background", "special.foreground",
               "colors.color4"}}
        \cup {EmptyDict}

\* The states the cache file can be in when the program starts.
Files(complete) ==
    {[kind |-> "absent", obj |-> EmptyDict], [kind |-> "invalid", obj |-> EmptyDict]}
        \cup {[kind |-> "json", obj |-> o] : o \in complete \cup PartialCaches}

\* d[k1][k2] of Python raises KeyError when either key is not there.
KeyRaises(d, k1, k2) == d[k1] = Missing \/ d[k2] = Missing

\* load_wal_colors: the default dict when the file does not exist, else
\* json.load of it, whose JSONDecodeError is not caught.
load_wal_colors(file) ==
    IF file.kind = "absent" THEN [raises |-> "none", value |-> DefaultPalette]
    ELSE IF file.kind = "invalid" THEN [raises |-> "JSONDecodeError", value |-> EmptyDict]
    ELSE [raises |-> "none", value |-> file.obj]

-----------------------------------------------------------------------------
(* The style sheet.  A rule is a selector and its declarations; a value is  *)
(* a sequence of tokens, each token a string as a sequence.                 *)

Lit(s) == <<s>>

Decl(p, v) == [prop |-> p, value |-> v]

Shade(color, factor) == <<Lit("shade("), color, Lit(","), Lit(factor), Lit(")")>>

\* The f-string of apply_theme, with the three colours substituted.
StyleSheet(bg_color, fg_color, accent_color) ==
    << [selector |-> "*",
        decls |-> << Decl("font-family", <<Lit("'Sans'")>>),
                     Decl("font-size", <<Lit("14px")>>) >>],
       [selector |-> "window",
        decls |-> << Decl("background-color", <<bg_color>>),
                     Decl("border-radius", <<Lit("0px")>>),
                     Decl("border", <<Lit("2px"), Lit("solid"), accent_color>>) >>],
       [selector |-> "label",
        decls |-> << Decl("color", <<fg_color>>) >>],
       [selector |-> "button",
        decls |-> << Decl("background-color", Shade(bg_color, "1.1")),
                     Decl("color", <<fg_color>>),
                     Decl("border-radius", <<Lit("0px")>>),
                     Decl("padding", <<Lit("12px"), Lit("24px")>>),
                     Decl("margin", <<Lit("0")>>),
                     Decl("border", <<Lit("none")>>),
                     Decl("transition", <<Lit("all"), Lit("0.2s"), Lit("ease")>>) >>],
       [selector |-> "button:hover",
        decls |-> << Decl("background-color", <<accent_color>>),
                     Decl("color", <<bg_color>>) >>],
       [selector |-> "button:active",
        decls |-> << Decl("background-color", Shade(accent_color, "0.9")) >>] >>

\* apply_theme with the accent read from the wrong entry.
apply_theme_WrongAccent(colors) ==
    IF KeyRaises(colors, "special", "special.background")
          \/ KeyRaises(colors, "special", "special.foreground")
          \/ KeyRaises(colors, "colors", "colors.color4")
    THEN [raises |-> "KeyError", value |-> <<>>]
    ELSE [raises |-> "none",
          value  |-> StyleSheet(colors["special.background"],
                                colors["special.foreground"],
                                colors["special.background"])]

\* apply_theme: the three lookups, then the style sheet.
apply_theme(colors) ==
    IF KeyRaises(colors, "special", "special.background")
          \/ KeyRaises(colors, "special", "special.foreground")
          \/ KeyRaises(colors, "colors", "colors.color4")
    THEN [raises |-> "KeyError", value |-> <<>>]
    ELSE [raises |-> "none",
          value  |-> StyleSheet(colors["special.background"],
                                colors["special.foreground"],
                                colors["colors.color4"])]

\* hex_to_rgba: the three colour channels over 255, alpha 1.0; ValueError
\* from int() when a two-character slice is empty or not hexadecimal.
hex_to_rgba(hex_color) ==
    LET h == LStrip(hex_color, "#")
        r == Slice(h, 0, 2)
        g == Slice(h, 2, 4)
        b == Slice(h, 4, 6)
    IN  IF IntRaises(r) \/ IntRaises(g) \/ IntRaises(b)
        THEN [raises |-> "ValueError", value |-> <<>>]
        ELSE [raises |-> "none",
              value  |-> << <<Int16(r), 255>>, <<Int16(g), 255>>, <<Int16(b), 255>>,
                            <<1, 1>> >>]

-----------------------------------------------------------------------------
(* External commands.                                                       *)

hyprlock == <<"hyprlock">>

\* lock_commands of fallback_lock, as the strings the code writes.
lock_commands ==
    << <<"loginctl", " ", "lock-session">>,
       <<"dm-tool", " ", "lock">>,
       <<"i3lock">>,
       <<"swaylock">> >>

poweroff == <<"systemctl", " ", "poweroff">>
reboot   == <<"systemctl", " ", "reboot">>

LockArgvs == {hyprlock} \cup {Split(lock_commands[k]) : k \in 1..Len(lock_commands)}

\* What running a command with subprocess.run(..., check=True) can do:
\* exit 0, exit non-zero, no such executable, an executable that may not be
\* run (PermissionError, an OSError that is not FileNotFoundError).
Outcomes == {"ok", "nonzero", "notfound", "denied"}

NoOutcome == [a \in LockArgvs |-> "unset"]

\* The exception subprocess.run(argv, check=True) raises for an outcome.
RunRaises(o) ==
    CASE o = "ok"       -> "none"
      [] o = "nonzero"  -> "CalledProcessError"
      [] o = "notfound" -> "FileNotFoundError"
      [] o = "denied"   -> "PermissionError"

\* The except clause of on_lock.
CaughtOnLock == {"CalledProcessError", "FileNotFoundError"}

\* An except clause that forgets FileNotFoundError.
CaughtFallback_OnlyExitStatus == {"CalledProcessError"}

\* The except clause of fallback_lock.
CaughtFallback == {"CalledProcessError", "FileNotFoundError"}

\* The values dialog.run() returns for a YES_NO dialog: a button, or the
\* dialog dismissed.
Responses == {"YES", "NO", "DELETE_EVENT"}

\* Exit statuses of os.system: zero and a non-zero one.
Statuses == {"0", "1"}

Entry(argv) == [argv |-> argv, n |-> nact, by |-> handler]

NoDialog == [state |-> "none", text |-> "", secondary |-> "", bg |-> <<>>, fg |-> <<>>]

-----------------------------------------------------------------------------
(* Construction: PowerMenu() and the main block.                            *)

InitWith(files) ==
    /\ pc = "__init__"
    /\ env_sig \in BOOLEAN
    /\ colors_file \in files
    /\ is_hyprland = FALSE
    /\ wal_colors = EmptyDict
    /\ css = <<>>
    /\ window = "none"
    /\ dialog = NoDialog
    /\ response = "none"
    /\ i = 1
    /\ outcome = NoOutcome
    /\ log = <<>>
    /\ nact = 0
    /\ handler = "none"
    /\ buttons = <<>>
    /\ command = <<>>
    /\ status = "none"
    /\ exc = "none"

Init == InitWith(Files(RunCaches))

\* The start of the program over every cache file of the model.
InitTheme == InitWith(Files(CompleteCaches))

\* Gtk.Window.__init__ and the environment check.
Construct ==
    /\ pc = "__init__"
    /\ window' = "created"
    /\ is_hyprland' = env_sig
    /\ pc' = "load_wal_colors"
    /\ UNCHANGED <<env_sig, colors_file, wal_colors, css, dialog, response, i, outcome,
                   log, nact, handler, buttons, command, status, exc>>

\* self.wal_colors = self.load_wal_colors(); an exception ends the program.
LoadWalColors ==
    /\ pc = "load_wal_colors"
    /\ LET r == load_wal_colors(colors_file)
       IN  IF r.raises # "none"
           THEN /\ pc' = "crashed"
                /\ exc' = r.raises
                /\ UNCHANGED wal_colors
           ELSE /\ pc' = "setup_ui"
                /\ wal_colors' = r.value
                /\ UNCHANGED exc
    /\ UNCHANGED <<env_sig, colors_file, is_hyprland, css, window, dialog, response, i,
                   outcome, log, nact, handler, buttons, command, status>>

\* setup_ui: the four buttons, each connected to its handler.
SetupUi ==
    /\ pc = "setup_ui"
    /\ buttons' = << <<"Lock", "on_lock">>, <<"Reboot", "on_reboot">>,
                     <<"Shutdown", "on_shutdown">>, <<"Cancel", "on_cancel">> >>
    /\ pc' = "apply_theme"
    /\ UNCHANGED <<env_sig, colors_file, is_hyprland, wal_colors, css, window, dialog,
                   response, i, outcome, log, nact, handler, command, status, exc>>

\* self.apply_theme(); a KeyError ends the program.
ApplyTheme ==
    /\ pc = "apply_theme"
    /\ LET r == apply_theme(wal_colors)
       IN  IF r.raises # "none"
           THEN /\ pc' = "crashed"
                /\ exc' = r.raises
                /\ UNCHANGED css
           ELSE /\ pc' = "main"
                /\ css' = r.value
                /\ UNCHANGED exc
    /\ UNCHANGED <<env_sig, colors_file, is_hyprland, wal_colors, window, dialog, response,
                   i, outcome, log, nact, handler, buttons, command, status>>

\* win.connect("destroy", Gtk.main_quit); win.show_all(); Gtk.main().
Main ==
    /\ pc = "main"
    /\ window' = "shown"
    /\ pc' = "idle"
    /\ UNCHANGED <<env_sig, colors_file, is_hyprland, wal_colors, css, dialog, response, i,
                   outcome, log, nact, handler, buttons, command, status, exc>>

\* A button can be clicked when the main loop is waiting, no modal dialog
\* is running and the button is connected to handler h.
Clickable(h) ==
    /\ pc = "idle"
    /\ window = "shown"
    /\ nact < MaxActivations
    /\ \E k \in 1..Len(buttons) : buttons[k][2] = h

\* An exception leaves the handler: back to the main loop, window untouched.
Raise(e) ==
    /\ pc' = "idle"
    /\ exc' = e
    /\ outcome' = NoOutcome

-----------------------------------------------------------------------------
(* Lock: on_lock and fallback_lock.                                         *)

\* on_lock without the branch on is_hyprland.
LockEntry_NoBranch(hypr) == "fallback_lock"

\* The branch on_lock takes: the try of hyprlock, or fallback_lock at once.
LockEntry(hypr) == IF hypr THEN "hyprlock" ELSE "fallback_lock"

\* After subprocess.run(["hyprlock"], check=True): on to self.destroy(),
\* into fallback_lock when the except clause takes the exception.
AfterHyprlock(e) ==
    IF e = "none" THEN "lock_destroy"
    ELSE IF e \in CaughtOnLock THEN "fallback_lock"
    ELSE "raise"

\* The for loop without its break: a success goes on like a failure.
AfterFallback_NoBreak(e, k) ==
    IF e = "none" \/ e \in {"CalledProcessError", "FileNotFoundError"}
    THEN (IF k < Len(lock_commands) THEN "fallback_lock" ELSE "lock_destroy")
    ELSE "raise"

\* After one subprocess.run of the for loop at position k: break on
\* success, continue when the except clause takes the exception (the loop
\* ends after the last command).
AfterFallback(e, k) ==
    IF e = "none" THEN "lock_destroy"
    ELSE IF e \in CaughtFallback
         THEN (IF k < Len(lock_commands) THEN "fallback_lock" ELSE "lock_destroy")
    ELSE "raise"

\* The Lock button is clicked; the environment fixes what each command of
\* the chain will do during this activation.
OnLock ==
    /\ Clickable("on_lock")
    /\ \E o \in [LockArgvs -> Outcomes \cup {"unset"}] :
          /\ \A a \in LockArgvs : o[a] = "unset" <=> (a = hyprlock /\ ~is_hyprland)
          /\ outcome' = o
    /\ handler' = "on_lock"
    /\ nact' = nact + 1
    /\ exc' = "none"
    /\ response' = "none"
    /\ i' = 1
    /\ pc' = LockEntry(is_hyprland)
    /\ UNCHANGED <<env_sig, colors_file, is_hyprland, wal_colors, css, window, dialog, log,
                   buttons, command, status>>

\* subprocess.run(["hyprlock"], check=True) inside the try of on_lock.
RunHyprlock ==
    /\ pc = "hyprlock"
    /\ log' = Append(log, Entry(hyprlock))
    /\ LET e    == RunRaises(outcome[hyprlock])
           next == AfterHyprlock(e)
       IN  IF next = "raise"
           THEN Raise(e)
           ELSE pc' = next /\ UNCHANGED <<exc, outcome>>
    /\ UNCHANGED <<env_sig, colors_file, is_hyprland, wal_colors, css, window, dialog,
                   response, i, nact, handler, buttons, command, status>>

\* One iteration of the for loop of fallback_lock.
FallbackStep ==
    /\ pc = "fallback_lock"
    /\ i <= Len(lock_commands)
    /\ LET argv == Split(lock_commands[i])
           e    == RunRaises(outcome[argv])
           next == AfterFallback(e, i)
       IN  /\ log' = Append(log, Entry(argv))
           /\ IF next = "raise"
              THEN Raise(e) /\ UNCHANGED i
              ELSE /\ pc' = next
                   /\ i' = IF e = "none" THEN i ELSE i + 1
                   /\ UNCHANGED <<exc, outcome>>
    /\ UNCHANGED <<env_sig, colors_file, is_hyprland, wal_colors, css, window, dialog,
                   response, nact, handler, buttons, command, status>>

\* self.destroy() at the end of on_lock; the destroy signal quits the main loop.
LockDestroy ==
    /\ pc = "lock_destroy"
    /\ window' = "destroyed"
    /\ pc' = "exited"
    /\ UNCHANGED <<env_sig, colors_file, is_hyprland, wal_colors, css, dialog, response, i,
                   outcome, log, nact, handler, buttons, command, status, exc>>

-----------------------------------------------------------------------------
(* Cancel, Reboot, Shutdown and the confirmation dialog.                    *)

\* on_cancel that returns without destroying the window.
OnCancel_NoDestroy ==
    /\ Clickable("on_cancel")
    /\ handler' = "on_cancel"
    /\ nact' = nact + 1
    /\ exc' = "none"
    /\ response' = "none"
    /\ pc' = "idle"
    /\ UNCHANGED <<env_sig, colors_file, is_hyprland, wal_colors, css, window, dialog, i,
                   outcome, log, buttons, command, status>>

\* on_cancel: self.destroy().
OnCancel ==
    /\ Clickable("on_cancel")
    /\ handler' = "on_cancel"
    /\ nact' = nact + 1
    /\ exc' = "none"
    /\ response' = "none"
    /\ window' = "destroyed"
    /\ pc' = "exited"
    /\ UNCHANGED <<env_sig, colors_file, is_hyprland, wal_colors, css, dialog, i, outcome,
                   log, buttons, command, status>>

\* confirm_action up to dialog.run(): the dialog is built and themed; a
\* ValueError of hex_to_rgba leaves the handler before the dialog is run.
confirm_action(h, action, message, cmd) ==
    /\ Clickable(h)
    /\ handler' = h
    /\ nact' = nact + 1
    /\ response' = "none"
    /\ command' = cmd
    /\ LET bg == hex_to_rgba(wal_colors["special.background"])
           fg == hex_to_rgba(wal_colors["special.foreground"])
           d  == [state |-> "created", text |-> action, secondary |-> message,
                  bg |-> <<>>, fg |-> <<>>]
       IN  IF bg.raises # "none"
           THEN /\ dialog' = d
                /\ pc' = "idle"
                /\ exc' = bg.raises
           ELSE IF fg.raises # "none"
           THEN /\ dialog' = [d EXCEPT !.bg = bg.value]
                /\ pc' = "idle"
                /\ exc' = fg.raises
           ELSE /\ dialog' = [d EXCEPT !.bg = bg.value, !.fg = fg.value,
                                       !.state = "running"]
                /\ pc' = "dialog_run"
                /\ exc' = "none"
    /\ UNCHANGED <<env_sig, colors_file, is_hyprland, wal_colors, css, window, i, outcome,
                   log, buttons, status>>

OnShutdown == confirm_action("on_shutdown", "Shutdown", "Power off the system?", poweroff)

\* on_reboot with the command of on_shutdown.
OnReboot_WrongCommand ==
    confirm_action("on_reboot", "Reboot", "Restart the system?", poweroff)

OnReboot == confirm_action("on_reboot", "Reboot", "Restart the system?", reboot)

\* A test of the response that takes a dismissed dialog for a Yes.
AfterResponse_NotNo(r) == IF r # "NO" THEN "os_system" ELSE "dialog_destroy"

\* The window closed only when the command succeeded.
AfterSystem_Checked(st) == IF st = "0" THEN "self_destroy" ELSE "dialog_destroy"

\* if response == Gtk.ResponseType.YES.
AfterResponse(r) == IF r = "YES" THEN "os_system" ELSE "dialog_destroy"

\* What follows os.system(command): self.destroy(), whatever it returned.
AfterSystem(st) == "self_destroy"

\* response = dialog.run(): the user answers or dismisses the dialog.
DialogRun(r) ==
    /\ pc = "dialog_run"
    /\ response' = r
    /\ pc' = AfterResponse(r)
    /\ UNCHANGED <<env_sig, colors_file, is_hyprland, wal_colors, css, window, dialog, i,
                   outcome, log, nact, handler, buttons, command, status, exc>>

\* os.system(command): the shell runs the words of the command.
OsSystem(st) ==
    /\ pc = "os_system"
    /\ log' = Append(log, Entry(Split(command)))
    /\ status' = st
    /\ pc' = AfterSystem(st)
    /\ UNCHANGED <<env_sig, colors_file, is_hyprland, wal_colors, css, window, dialog,
                   response, i, outcome, nact, handler, buttons, command, exc>>

\* self.destroy() of confirm_action.
SelfDestroy ==
    /\ pc = "self_destroy"
    /\ window' = "destroyed"
    /\ pc' = "dialog_destroy"
    /\ UNCHANGED <<env_sig, colors_file, is_hyprland, wal_colors, css, dialog, response, i,
                   outcome, log, nact, handler, buttons, command, status, exc>>

\* dialog.destroy(); the handler returns, to the main loop or out of it.
DialogDestroy ==
    /\ pc = "dialog_destroy"
    /\ dialog' = [dialog EXCEPT !.state = "destroyed"]
    /\ pc' = IF window = "destroyed" THEN "exited" ELSE "idle"
    /\ UNCHANGED <<env_sig, colors_file, is_hyprland, wal_colors, css, window, response, i,
                   outcome, log, nact, handler, buttons, command, status, exc>>

-----------------------------------------------------------------------------

Next ==
    \/ Construct
    \/ LoadWalColors
    \/ SetupUi
    \/ ApplyTheme
    \/ Main
    \/ OnLock
    \/ RunHyprlock
    \/ FallbackStep
    \/ LockDestroy
    \/ OnCancel
    \/ OnShutdown
    \/ OnReboot
    \/ \E r \in Responses : DialogRun(r)
    \/ \E st \in Statuses : OsSystem(st)
    \/ SelfDestroy
    \/ DialogDestroy

Spec == Init /\ [][Next]_vars

\* The program up to the main loop: PowerMenu() and the main block.
NextStartup ==
    \/ Construct
    \/ LoadWalColors
    \/ SetupUi
    \/ ApplyTheme
    \/ Main

\* Startup alone, over every cache file of the model.
SpecTheme == InitTheme /\ [][NextStartup]_vars

-----------------------------------------------------------------------------
(* Observation of a run.                                                    *)

\* The commands invoked by the current (or last) activation, in order.
Act == SelectSeq(log, LAMBDA e : e.n = nact)

Argvs(L) == [k \in 1..Len(L) |-> L[k].argv]

IsPrefix(s, t) == Len(s) <= Len(t) /\ SubSeq(t, 1, Len(s)) = s

\* The two ways a lock command fails that the chain is specified for.
Fails == {"nonzero", "notfound"}

\* The full Lock chain as the specification lists it.
FullChain(sig) ==
    (IF sig THEN << <<"hyprlock">> >> ELSE <<>>)
        \o << <<"loginctl", "lock-session">>, <<"dm-tool", "lock">>,
              <<"i3lock">>, <<"swaylock">> >>

InLock == handler = "on_lock" /\ pc \in {"hyprlock", "fallback_lock", "lock_destroy", "exited"}

LockRunning == pc \in {"hyprlock", "fallback_lock"}

\* The first n commands of the chain fail and command n + 1 succeeds.
FirstSuccessAt(C, n) ==
    /\ \A k \in 1..n : outcome[C[k]] \in Fails
    /\ outcome[C[n + 1]] = "ok"

\* A failure of a lock command by non-zero exit or missing executable never
\* leaves on_lock as an exception.
LockFailuresHandled ==
    handler = "on_lock" => exc \notin {"CalledProcessError", "FileNotFoundError"}

\* C1: in a Lock activation whose first N chain commands fail (non-zero exit
\* or executable not found) and whose command N+1 succeeds, exactly the
\* first N+1 commands of the chain are invoked, each once, in chain order,
\* none after them, and the window is then closed.
C1_LockStopsAtFirstSuccess ==
    /\ LockFailuresHandled
    /\ InLock =>
          LET C == FullChain(env_sig)
          IN  \A n \in 0..(Len(C) - 1) :
                 FirstSuccessAt(C, n) =>
                     /\ IsPrefix(Argvs(Act), SubSeq(C, 1, n + 1))
                     /\ LockRunning => Len(Act) < n + 1
                     /\ pc \in {"lock_destroy", "exited"} =>
                            Argvs(Act) = SubSeq(C, 1, n + 1)
                     /\ pc = "lock_destroy" => window = "shown"
                     /\ pc = "exited" => window = "destroyed"

C1_Witness ==
    /\ handler = "on_lock" /\ pc = "exited" /\ env_sig
    /\ window = "destroyed"
    /\ outcome[<<"hyprlock">>] = "notfound"
    /\ outcome[<<"loginctl", "lock-session">>] = "nonzero"
    /\ outcome[<<"dm-tool", "lock">>] = "ok"
    /\ Len(Act) = 3

AllFail(C) == \A k \in 1..Len(C) : outcome[C[k]] \in Fails

\* C2: when every command of the full Lock chain fails (non-zero exit or
\* executable not found), with or without the compositor signature, every
\* command of the chain is invoked exactly once, in order, and the
\* activation ends with the window closed.
C2_AllFailStillCloses ==
    /\ LockFailuresHandled
    /\ InLock =>
          LET C == FullChain(env_sig)
          IN  AllFail(C) =>
                 /\ IsPrefix(Argvs(Act), C)
                 /\ LockRunning => Len(Act) < Len(C)
                 /\ pc \in {"lock_destroy", "exited"} => Argvs(Act) = C
                 /\ pc = "exited" => window = "destroyed"

C2_Witness ==
    /\ handler = "on_lock" /\ pc = "exited" /\ ~env_sig
    /\ AllFail(FullChain(env_sig))
    /\ Len(Act) = 4
    /\ window = "destroyed"

\* C3: activating Cancel closes the window and invokes no external command:
\* once on_cancel has run the window is destroyed and every command in the
\* log was invoked by an earlier activation of another handler.
C3_CancelClosesWithoutCommands ==
    handler = "on_cancel" =>
        /\ window = "destroyed"
        /\ pc = "exited"
        /\ \A k \in 1..Len(log) : log[k].by # "on_cancel" /\ log[k].n < nact

C3_Witness ==
    /\ handler = "on_cancel"
    /\ nact = 2
    /\ log # <<>>
    /\ window = "destroyed"

\* C4: in a Reboot activation, after Yes the only command invoked is
\* systemctl reboot, once, and systemctl poweroff is not invoked; after No
\* or a dismissed dialog no command is invoked, the dialog is closed and the
\* main window stays open.
C4_RebootConfirmOrDecline ==
    handler = "on_reboot" =>
        /\ \A k \in 1..Len(Act) : Act[k].argv # <<"systemctl", "poweroff">>
        /\ response = "none" => Act = <<>>
        /\ response = "YES" =>
              /\ pc \in {"os_system", "self_destroy", "dialog_destroy", "exited"}
              /\ pc = "os_system" => Act = <<>>
              /\ pc # "os_system" => Argvs(Act) = << <<"systemctl", "reboot">> >>
        /\ response \in {"NO", "DELETE_EVENT"} =>
              /\ Act = <<>>
              /\ window = "shown"
              /\ pc \in {"dialog_destroy", "idle"}
              /\ pc = "idle" => dialog.state = "destroyed"

C4_Witness ==
    /\ handler = "on_reboot" /\ response = "YES" /\ pc = "exited"
    /\ Argvs(log) = << <<"systemctl", "reboot">> >>

C4_WitnessDeclined ==
    /\ handler = "on_reboot" /\ response = "DELETE_EVENT" /\ pc = "idle"
    /\ window = "shown" /\ dialog.state = "destroyed" /\ log = <<>>

\* C9: for Reboot and Shutdown, after Yes the one fixed command is invoked
\* exactly once, before the window is closed, and the window is closed
\* whatever status the command returned.
C9_ConfirmedCommandThenClose ==
    handler \in {"on_reboot", "on_shutdown"} =>
        LET cmd == IF handler = "on_reboot" THEN <<"systemctl", "reboot">>
                   ELSE <<"systemctl", "poweroff">>
        IN  /\ window = "destroyed" => Argvs(Act) = <<cmd>>
            /\ response = "YES" =>
                  /\ pc = "os_system" => Act = <<>> /\ window = "shown"
                  /\ pc = "self_destroy" => Argvs(Act) = <<cmd>> /\ window = "shown"
                  /\ pc \in {"dialog_destroy", "exited"} =>
                         Argvs(Act) = <<cmd>> /\ window = "destroyed"
                  /\ pc \in {"os_system", "self_destroy", "dialog_destroy", "exited"}

C9_Witness ==
    /\ handler = "on_shutdown" /\ response = "YES" /\ pc = "exited"
    /\ status = "1"
    /\ window = "destroyed"
    /\ Argvs(Act) = << <<"systemctl", "poweroff">> >>

-----------------------------------------------------------------------------
(* Theme.                                                                   *)

\* '#' followed by six hex digits.
IsValidColor(c) ==
    /\ Len(c) = Len(Black)
    /\ c[1] = "#"
    /\ \A k \in 2..Len(c) : IsHexDigit(c[k])

Required == {"special.background", "special.foreground", "colors.color4"}

IsValidPalette(P) == \A p \in Required : IsValidColor(P[p])

\* The palette the cache file stands for (the built-in one when absent).
FilePalette == IF colors_file.kind = "json" THEN colors_file.obj ELSE DefaultPalette

Rule(sheet, sel) == sheet[CHOOSE k \in 1..Len(sheet) : sheet[k].selector = sel]

Value(rule, prop) ==
    rule.decls[CHOOSE k \in 1..Len(rule.decls) : rule.decls[k].prop = prop].value

\* border: <width> <style> <color>.
BorderColor(sheet) ==
    LET v == Value(Rule(sheet, "window"), "border") IN v[Len(v)]

LabelColor(sheet) ==
    LET v == Value(Rule(sheet, "label"), "color") IN v[Len(v)]

Themed == pc \notin {"__init__", "load_wal_colors", "setup_ui", "apply_theme", "crashed"}

\* C7: for every valid palette P the style sheet's window border colour is
\* P.accent (colors.color4) and its label colour is P.foreground; the cache
\* #000000 / #ffffff / #ff00ff yields border #ff00ff and label #ffffff.
C7_RenderUsesAccentAndForeground ==
    /\ (colors_file.kind # "invalid" /\ IsValidPalette(FilePalette)
            /\ pc \notin {"__init__", "load_wal_colors", "setup_ui", "apply_theme"}) =>
          /\ pc # "crashed"
          /\ BorderColor(css) = FilePalette["colors.color4"]
          /\ LabelColor(css) = FilePalette["special.foreground"]
    /\ (Themed /\ colors_file.kind = "json"
            /\ colors_file.obj = Cache(Black, White, Magenta)) =>
          /\ BorderColor(css) = <<"#","f","f","0","0","f","f">>
          /\ LabelColor(css) = <<"#","f","f","f","f","f","f">>

C7_Witness ==
    /\ pc = "idle"
    /\ colors_file.kind = "json"
    /\ colors_file.obj = Cache(Black, White, Magenta)
    /\ BorderColor(css) = Magenta
    /\ LabelColor(css) = White

\* The cache file does not yield the three entries the program needs.
Unusable ==
    \/ colors_file.kind \in {"absent", "invalid"}
    \/ \E p \in Required \cup {"special", "colors"} : colors_file.obj[p] = Missing

\* C5: whenever the cache file is absent, is not valid JSON or lacks a
\* required key, loading the colours does not fail and yields exactly the
\* built-in default palette.
C5_LoadFallsBackToDefault ==
    (Unusable /\ pc \notin {"__init__", "load_wal_colors"}) =>
        /\ exc = "none"
        /\ pc # "crashed"
        /\ wal_colors = DefaultPalette

\* The part of C5 the code has: an absent file yields the default palette.
C5_AbsentYieldsDefault ==
    (colors_file.kind = "absent" /\ pc \notin {"__init__", "load_wal_colors"}) =>
        /\ pc # "crashed"
        /\ wal_colors = DefaultPalette

-----------------------------------------------------------------------------
(* Lock path and privileged commands.                                       *)

\* C6: no exception leaves on_lock, whatever way a lock command fails, so
\* the handler always reaches the window close.
C6_NoExceptionLeavesOnLock ==
    handler = "on_lock" => (exc = "none" /\ pc # "idle")

\* C8: the signature read at construction selects the Lock path: with it,
\* hyprlock is the first command of a Lock activation and the fallback list
\* is entered only after hyprlock has failed; without it hyprlock is never
\* invoked and loginctl lock-session is the first command.
C8_SignatureSelectsLockPath ==
    /\ pc # "__init__" => is_hyprland = env_sig
    /\ (handler = "on_lock" /\ env_sig) =>
          /\ pc = "hyprlock" => Act = <<>>
          /\ Act # <<>> => Act[1].argv = <<"hyprlock">>
          /\ pc = "fallback_lock" =>
                /\ Act # <<>>
                /\ outcome[<<"hyprlock">>] \in Fails
          /\ (Len(Act) > 1 /\ outcome # NoOutcome) => outcome[<<"hyprlock">>] \in Fails
    /\ ~env_sig =>
          /\ \A k \in 1..Len(log) : log[k].argv # <<"hyprlock">>
          /\ pc # "hyprlock"
          /\ (handler = "on_lock" /\ Act # <<>>) =>
                Act[1].argv = <<"loginctl", "lock-session">>

C8_Witness ==
    /\ env_sig /\ handler = "on_lock" /\ pc = "exited"
    /\ Len(Act) = 2
    /\ Act[1].argv = <<"hyprlock">>
    /\ Act[2].argv = <<"loginctl", "lock-session">>

C8_WitnessAbsent ==
    /\ ~env_sig /\ handler = "on_lock" /\ pc = "exited"
    /\ Act # <<>>
    /\ Act[1].argv = <<"loginctl", "lock-session">>

Privileged == {<<"systemctl", "poweroff">>, <<"systemctl", "reboot">>}

PrivilegedIn(L) == {k \in 1..Len(L) : L[k].argv \in Privileged}

\* Who may have invoked the privileged commands of the log.
PrivilegedByConfirm ==
    /\ Cardinality(PrivilegedIn(log)) <= 1
    /\ \A k \in PrivilegedIn(log) :
          /\ log[k].argv = <<"systemctl", "poweroff">> => log[k].by = "on_shutdown"
          /\ log[k].argv = <<"systemctl", "reboot">> => log[k].by = "on_reboot"

\* The step that invokes a privileged command.
InvokesPrivileged == log' # log /\ log'[Len(log')].argv \in Privileged

====
